---- MODULE Spec2Model ----
(***************************************************************************)
(* Model of src/app.py: the Streamlit "AI Content Summarizer".             *)
(*                                                                         *)
(* One trigger of the "Summarize Content" button runs the script's handler *)
(* (lines 276-364): URL validation, transcript or page fetch, the greedy   *)
(* chunking loop of get_youtube_transcript, the per-chunk and the final    *)
(* LLM calls of generate_summary, the "Error" substring tests, and the two *)
(* download buttons.                                                       *)
(*                                                                         *)
(* Python strings are sequences of one-character strings, so that len(),   *)
(* "in", split() and strip() are computed as Python computes them.  A code *)
(* point outside ASCII is one element named by its code point ("U+20AC").  *)
(* An Optional value is a sequence of length 0 (None) or 1.                *)
(***************************************************************************)
EXTENDS Integers, Sequences, FiniteSets, TLC

(***************************************************************************)
(* Python string primitives                                                *)
(***************************************************************************)

\* str.find(sub, start) with 1-based positions; 0 when sub does not occur.
Find(s, sub, from) ==
  LET hits == { i \in from..(Len(s) - Len(sub) + 1) :
                  \A j \in 1..Len(sub) : s[i + j - 1] = sub[j] }
  IN  IF hits = {} THEN 0 ELSE CHOOSE i \in hits : \A k \in hits : i <= k

\* `sub in s`
Contains(s, sub) == Find(s, sub, 1) # 0

\* str.split(sep): leftmost, non-overlapping occurrences of sep are removed.
RECURSIVE Split(_, _)
Split(s, sep) ==
  LET i == Find(s, sep, 1)
  IN  IF i = 0 THEN << s >>
      ELSE << SubSeq(s, 1, i - 1) >> \o Split(SubSeq(s, i + Len(sep), Len(s)), sep)

\* sep.join(strs)
RECURSIVE Join(_, _)
Join(strs, sep) ==
  IF strs = << >> THEN << >>
  ELSE IF Len(strs) = 1 THEN strs[1]
  ELSE strs[1] \o sep \o Join(Tail(strs), sep)

\* "".join(strs)
RECURSIVE Concat(_)
Concat(strs) == IF strs = << >> THEN << >> ELSE strs[1] \o Concat(Tail(strs))

Whitespace == { " ", "\n", "\t", "\r" }

\* bool(s.strip()): some character of s is not whitespace.
StripNonEmpty(s) == { i \in 1..Len(s) : s[i] \notin Whitespace } # { }

DigitChars == << "0", "1", "2", "3", "4", "5", "6", "7", "8", "9" >>

\* str(n) for n >= 0
RECURSIVE Dec(_)
Dec(n) == IF n < 10 THEN << DigitChars[n + 1] >>
          ELSE Dec(n \div 10) \o << DigitChars[(n % 10) + 1] >>

\* f"{n:02d}"
Pad2(n) == IF n < 10 THEN << "0" >> \o Dec(n) ELSE Dec(n)

\* f"{seconds / 60:.1f}" for whole seconds (ties, seconds % 6 = 3, rounded up).
OneDecimalMinutes(seconds) ==
  LET tenths == (seconds + 3) \div 6
  IN  Dec(tenths \div 10) \o << "." >> \o Dec(tenths % 10)

\* The characters str.encode('latin-1') and FPDF's core fonts accept.
NonLatin1 == { "U+20AC", "U+26A0", "U+FE0F", "U+274C" }
Latin1(s) == \A i \in 1..Len(s) : s[i] \notin NonLatin1

(***************************************************************************)
(* String constants of the program                                         *)
(***************************************************************************)

\* "\n---\n", the separator written between chunks and split on later.
Separator == << "\n", "-", "-", "-", "\n" >>

ErrorWord == << "E", "r", "r", "o", "r" >>

NoTranscriptWord ==
  << "N","o"," ","t","r","a","n","s","c","r","i","p","t" >>

InvalidYouTubeURL ==
  << "I","n","v","a","l","i","d"," ","Y","o","u","T","u","b","e"," ","U","R","L" >>

DurationPrefix ==
  << "V","i","d","e","o"," ","d","u","r","a","t","i","o","n"," ","(" >>

DurationSuffix ==
  <<
    " ","m","i","n","u","t","e","s",")"," ","e","x","c","e","e","d","s"," ","t","h","e"," ",
    "3","0","-","m","i","n","u","t","e"," ","l","i","m","i","t","."," ","P","l","e","a","s",
    "e"," ","u","s","e"," ","a"," ","s","h","o","r","t","e","r"," ","v","i","d","e","o"," ",
    "o","r"," ","s","e","g","m","e","n","t","." >>

NoTranscriptFoundMsg ==
  <<
    "N","o"," ","t","r","a","n","s","c","r","i","p","t"," ","f","o","u","n","d"," ","f","o",
    "r"," ","t","h","i","s"," ","v","i","d","e","o","." >>

TranscriptsDisabledMsg ==
  <<
    "T","r","a","n","s","c","r","i","p","t","s"," ","a","r","e"," ","d","i","s","a","b","l",
    "e","d"," ","f","o","r"," ","t","h","i","s"," ","v","i","d","e","o","." >>

NoTranscriptsAvailableMsg ==
  <<
    "N","o"," ","t","r","a","n","s","c","r","i","p","t","s"," ","a","v","a","i","l","a","b",
    "l","e"," ","f","o","r"," ","t","h","i","s"," ","v","i","d","e","o","." >>

ErrorRetrievingPrefix ==
  <<
    "E","r","r","o","r"," ","r","e","t","r","i","e","v","i","n","g"," ","t","r","a","n","s",
    "c","r","i","p","t",":"," " >>

ErrorProcessingPrefix ==
  <<
    "E","r","r","o","r"," ","p","r","o","c","e","s","s","i","n","g"," ","w","e","b","s","i",
    "t","e",":"," " >>

ErrorGeneratingPrefix ==
  <<
    "E","r","r","o","r"," ","g","e","n","e","r","a","t","i","n","g"," ","s","u","m","m","a",
    "r","y",":"," " >>

\* str(IndexError) of all_summaries[0] on an empty list
IndexErrorText ==
  <<
    "l","i","s","t"," ","i","n","d","e","x"," ","o","u","t"," ","o","f"," ","r","a","n","g",
    "e" >>

ProvideUrlMsg ==
  <<
    "U+26A0","U+FE0F"," ",
    "P","l","e","a","s","e"," ","p","r","o","v","i","d","e"," ","a"," ","U","R","L"," ","t",
    "o"," ","g","e","t"," ","s","t","a","r","t","e","d","." >>

ValidUrlMsg ==
  <<
    "U+26A0","U+FE0F"," ",
    "P","l","e","a","s","e"," ","e","n","t","e","r"," ","a"," ","v","a","l","i","d"," ","U",
    "R","L"," ","(","Y","o","u","T","u","b","e"," ","o","r"," ","W","e","b","s","i","t","e",
    ")","." >>

CouldNotProcessMsg ==
  <<
    "U+274C"," ",
    "C","o","u","l","d"," ","n","o","t"," ","p","r","o","c","e","s","s"," ","t","h","e"," ",
    "c","o","n","t","e","n","t","."," ","P","l","e","a","s","e"," ","t","r","y"," ","a","g",
    "a","i","n","." >>

AnErrorOccurredPrefix ==
  <<
    "U+274C"," ",
    "A","n"," ","e","r","r","o","r"," ","o","c","c","u","r","r","e","d",":"," " >>

YoutubeCom == << "y","o","u","t","u","b","e",".","c","o","m" >>

YoutuBe == << "y","o","u","t","u",".","b","e" >>

YoutuBeSlash == YoutuBe \o << "/" >>

YoutubeComEmbed == YoutubeCom \o << "/","e","m","b","e","d","/" >>

(***************************************************************************)
(* Inputs: the URL typed by the user and what the network answers          *)
(***************************************************************************)

UrlWatch ==
  <<
    "h","t","t","p","s",":","/","/","y","o","u","t","u",".","b","e","/","d","Q","w","4","w",
    "9","W","g","X","c","Q" >>

UrlNoId == << "h","t","t","p","s",":","/","/","y","o","u","t","u","b","e",".","c","o","m","/" >>

UrlSite == << "h","t","t","p","s",":","/","/","a",".","i","o","/","p" >>

UrlBad == << "s","u","m","m","a","r","i","z","e"," ","t","h","i","s" >>

UrlEmpty == << >>

UrlSpaces == << " ", " " >>

\* The contents of the text_input when the button is clicked.
Urls == { UrlEmpty, UrlSpaces, UrlBad, UrlWatch, UrlNoId, UrlSite }

\* validators.url(generic_url), on the URLs above.
ValidatorsUrl(url) == url \in { UrlWatch, UrlNoId, UrlSite }

\* [0-9A-Za-z_-]
IdChars ==
  { "0","1","2","3","4","5","6","7","8","9","_","-",
    "A","B","C","D","E","F","G","H","I","J","K","L","M","N","O","P","Q","R","S","T","U","V",
    "W","X","Y","Z","a","b","c","d","e","f","g","h","i","j","k","l","m","n","o","p","q","r",
    "s","t","u","v","w","x","y","z" }

\* ([0-9A-Za-z_-]{11}) matches at position i of url
IdAt(url, i) == /\ i >= 1
                /\ i + 10 <= Len(url)
                /\ \A j \in 0..10 : url[i + j] \in IdChars

\* re.search("(?:p1|p2|..)([0-9A-Za-z_-]{11})", url) for the alternatives in prefixes:
\* the group of the leftmost match, as an Optional.
SearchId(url, prefixes) ==
  LET hits == { h \in (1..Len(url)) \X prefixes :
                  /\ h[1] > Len(h[2])
                  /\ SubSeq(url, h[1] - Len(h[2]), h[1] - 1) = h[2]
                  /\ IdAt(url, h[1]) }
  IN  IF hits = {} THEN << >>
      ELSE LET m == CHOOSE h \in hits :
                      \A k \in hits : h[1] - Len(h[2]) <= k[1] - Len(k[2])
           IN  << SubSeq(url, m[1], m[1] + 10) >>

\* extract_video_id: the three patterns in order; None is << >>.
extract_video_id(url) ==
  LET p1 == SearchId(url, { << "v", "=" >>, << "/" >> })
      p2 == SearchId(url, { YoutuBeSlash })
      p3 == SearchId(url, { YoutubeComEmbed })
  IN  IF p1 # << >> THEN p1 ELSE IF p2 # << >> THEN p2 ELSE p3

\* the budgets the chunking loop is run with, the program's own among them
SmallBudget == 12
MidBudget == 25
MAX_CHUNK_SIZE == 4000
Budgets == { SmallBudget, MidBudget, MAX_CHUNK_SIZE }

\* Transcript texts.
TextA == << "a" >>
TextB == << "b" >>
TextC == << "c" >>
\* a line longer than SmallBudget once stamped
TextWide == << "h","e","l","l","o"," ","w","o","r","l","d" >>
\* a caption holding a line break and a rule: "a\n---\nb"
TextRule == << "a", "\n", "-", "-", "-", "\n", "b" >>
\* a caption ending in a rule: "a\n---"
TextRuleEnd == << "a", "\n", "-", "-", "-" >>

\* a caption that alone exceeds the program's budget
TextHuge == [i \in 1..(MAX_CHUNK_SIZE - 8) |-> "x"]

Part(start, text) == [start |-> start, text |-> text]

\* transcript.fetch(): sequences of parts, start in whole seconds.
Transcripts ==
  { << >>,
    << Part(0, TextA) >>,
    << Part(0, TextA), Part(5, TextB), Part(65, TextC) >>,
    << Part(0, TextWide), Part(5, TextB) >>,
    << Part(0, TextA), Part(5, TextWide), Part(65, TextB) >>,
    << Part(0, TextRule) >>,
    << Part(0, TextA), Part(5, TextRuleEnd), Part(65, TextB) >>,
    << Part(0, TextA), Part(1800, TextB) >>,
    << Part(0, TextA), Part(1860, TextB) >>,
    << Part(0, TextA), Part(6000, TextB) >>,
    << Part(0, TextA), Part(5, TextHuge) >> }

\* A video as the transcript API presents it: the outcome of list_transcripts ("ok", or
\* the exception it raises) and the English and the first other-language transcript,
\* each an Optional.
Videos ==
  [listing : {"ok"}, en : { << t >> : t \in Transcripts }, other : { << >> }]
  \cup [listing : {"ok"}, en : { << >> },
        other : { << >>,
                  << << Part(0, TextA), Part(5, TextB), Part(65, TextC) >> >>,
                  << << Part(0, TextA), Part(6000, TextB) >> >> }]
  \cup [listing : {"disabled", "not_found", "error"}, en : { << >> }, other : { << >> }]

NoVideo == [listing |-> "ok", en |-> << >>, other |-> << >>]

\* Page texts.
PageShort == << "a", "b" >>
PageTwo == << "c", "d" >>
PageBlank == << " ", "\n" >>
\* two lines, 32 characters
PageLong ==
  <<
    "f","i","r","s","t"," ","l","i","n","e"," ","o","f"," ","i","t","\n",
    "s","e","c","o","n","d"," ","l","i","n","e","!","!","\n" >>
\* a page with a horizontal rule between two paragraphs
PageRule == << "a", "\n", "-", "-", "-", "\n", "b" >>

\* A site: the outcome of UnstructuredURLLoader.load() and the page_content of the
\* Documents it returns.
Sites ==
  [outcome : {"ok"},
   docs : { << >>, << << >> >>, << PageBlank >>, << PageShort >>, << PageShort, PageTwo >>,
            << PageLong >>, << PageRule >>, << PageShort, PageLong, PageTwo >> }]
  \cup [outcome : {"error"}, docs : { << >> }]

NoSite == [outcome |-> "ok", docs |-> << >>]

\* str(e) of a network or provider exception
ExcText == << "t","i","m","e","o","u","t" >>

\* What the LLM answers: two plain summaries, one that speaks of an error, one holding
\* a character outside latin-1.
SummaryA == << "A" >>
SummaryB == << "B" >>
SummaryAboutError == << "E","r","r","o","r"," ","r","a","t","e" >>
SummaryEuro == << "U+20AC", "5" >>
Responses == { SummaryA, SummaryB, SummaryAboutError, SummaryEuro }

(***************************************************************************)
(* Pure parts of the fetchers and of generate_summary                      *)
(***************************************************************************)

\* the 30 of `duration_minutes > 30`
MaxMinutes == 30

\* get_video_duration, in seconds (60 * duration_minutes): the start of the last part
\* of the English transcript; 0 when there is none or anything raises.
get_video_duration(v) ==
  IF v.listing # "ok" THEN 0
  ELSE IF v.en = << >> THEN 0
  ELSE IF v.en[1] = << >> THEN 0
  ELSE v.en[1][Len(v.en[1])].start

\* duration_minutes > 30
ExceedsLimit(v) == get_video_duration(v) > MaxMinutes * 60

\* f"Video duration ({duration_minutes:.1f} minutes) exceeds the 30-minute limit. ..."
DurationMsg(v) ==
  DurationPrefix \o OneDecimalMinutes(get_video_duration(v)) \o DurationSuffix

\* find_transcript(["en"]), else next(iter(transcript_list), None)
PickTranscript(v) == IF v.en # << >> THEN v.en ELSE v.other

\* What get_youtube_transcript returns before it reaches the chunking loop, as an
\* Optional: << >> when it goes on to chunk the transcript.
EarlyReturn(url, v) ==
  IF extract_video_id(url) = << >> THEN << InvalidYouTubeURL >>
  ELSE IF ExceedsLimit(v) THEN << DurationMsg(v) >>
  ELSE IF v.listing = "disabled" THEN << TranscriptsDisabledMsg >>
  ELSE IF v.listing = "not_found" THEN << NoTranscriptsAvailableMsg >>
  ELSE IF v.listing = "error" THEN << ErrorRetrievingPrefix \o ExcText >>
  ELSE IF PickTranscript(v) = << >> THEN << NoTranscriptFoundMsg >>
  ELSE << >>

\* f"[{int(part.start//60):02d}:{int(part.start%60):02d}] {part.text}\n"
text_with_timestamp(part) ==
  << "[" >> \o Pad2(part.start \div 60) \o << ":" >> \o Pad2(part.start % 60)
    \o << "]", " " >> \o part.text \o << "\n" >>

\* the test with the running size forgotten
ExceedsChunkUnitOnly(size, unit, budget) == Len(unit) > budget

\* `chunk_size + len(text_with_timestamp) > max_chunk_size`
ExceedsChunk(size, unit, budget) == size + Len(unit) > budget

\* the handler's test of the transcript text
LooksLikeFetchError(text) == Contains(text, ErrorWord) \/ Contains(text, NoTranscriptWord)

\* the handler's test of generate_summary's result
LooksLikeError(text) == Contains(text, ErrorWord)

\* `"youtube.com" in generic_url or "youtu.be" in generic_url`
IsYoutube(url) == Contains(url, YoutubeCom) \/ Contains(url, YoutuBe)

\* The chunks generate_summary summarizes, in order: for each doc, the pieces of
\* content.split("\n---\n") with a non-empty strip().
RECURSIVE Segments(_)
Segments(ds) ==
  IF ds = << >> THEN << >>
  ELSE SelectSeq(Split(ds[1], Separator), StripNonEmpty) \o Segments(Tail(ds))

\* a reduce pass whenever there is a summary at all
NeedsReduceAlways(summaries) == Len(summaries) >= 1

\* `len(all_summaries) > 1`
NeedsReduce(summaries) == Len(summaries) > 1

\* the summaries joined last first
RECURSIVE CompositeTextReversed(_)
CompositeTextReversed(summaries) ==
  IF summaries = << >> THEN << >>
  ELSE IF Len(summaries) = 1 THEN summaries[1]
  ELSE CompositeTextReversed(Tail(summaries)) \o << "\n", "\n" >> \o summaries[1]

\* "\n\n".join(all_summaries)
CompositeText(summaries) == Join(summaries, << "\n", "\n" >>)

\* the exception's text returned bare
SummaryErrorBare(text) == text

\* f"Error generating summary: {str(e)}"
SummaryError(text) == ErrorGeneratingPrefix \o text

\* an empty list answered with an empty summary
ElseResultEmpty(summaries) == IF summaries # << >> THEN summaries[1] ELSE << >>

\* the else branch: all_summaries[0], an IndexError on an empty list, caught by the
\* function's except
ElseResult(summaries) ==
  IF summaries # << >> THEN summaries[1] ELSE SummaryError(IndexErrorText)

\* str(e) of the UnicodeEncodeError of the PDF encoding
CodecErrText ==
  << "'","l","a","t","i","n","-","1","'"," ","c","o","d","e","c" >>

\* The PDF's text goes through latin-1: the summary and the "Source:" line.
PdfEncodable(summary, url) == Latin1(summary) /\ Latin1(url)

(***************************************************************************)
(* State                                                                   *)
(***************************************************************************)

VARIABLES
  processing,       \* st.session_state.processing
  pc,               \* where the script stands: "idle" between two runs
  generic_url,      \* the text_input's value in this run
  video,            \* what the transcript API answers in this run
  site,             \* what the page loader answers in this run
  max_chunk_size,   \* the chunking budget
  transcript_parts, \* get_youtube_transcript: transcript.fetch()
  part_index,       \*   the loop's position in transcript_parts
  formatted_text,   \*   its locals
  current_chunk,
  chunk_size,
  transcript_text,  \* Optional: what get_youtube_transcript returned
  docs,             \* the page_content of each Document
  all_summaries,    \* generate_summary's list
  output_summary,   \* Optional: what generate_summary returned
  llm_calls,        \* the chain.run calls made in this run, in order
  errors,           \* what st.error / st.exception have shown in this run
  summary_shown,    \* Optional: the summary st.markdown has shown
  text_download,    \* Optional: the data of the text download button
  pdf_download      \* Optional: the data of the PDF download button

vars == << processing, pc, generic_url, video, site, max_chunk_size, transcript_parts,
           part_index, formatted_text, current_chunk, chunk_size, transcript_text, docs,
           all_summaries, output_summary, llm_calls, errors, summary_shown,
           text_download, pdf_download >>

chunker == << transcript_parts, part_index, formatted_text, current_chunk, chunk_size >>
world == << generic_url, video, site >>
shown == << errors, summary_shown, text_download, pdf_download >>

\* A script run starts from a blank page and `docs = []`.
FreshRun ==
  /\ transcript_parts' = << >>
  /\ part_index' = 1
  /\ formatted_text' = << >>
  /\ current_chunk' = << >>
  /\ chunk_size' = 0
  /\ transcript_text' = << >>
  /\ docs' = << >>
  /\ all_summaries' = << >>
  /\ output_summary' = << >>
  /\ llm_calls' = << >>
  /\ summary_shown' = << >>
  /\ text_download' = << >>
  /\ pdf_download' = << >>

Init ==
  /\ processing = FALSE
  /\ pc = "idle"
  /\ generic_url = UrlEmpty
  /\ video = NoVideo
  /\ site = NoSite
  /\ max_chunk_size \in Budgets
  /\ transcript_parts = << >>
  /\ part_index = 1
  /\ formatted_text = << >>
  /\ current_chunk = << >>
  /\ chunk_size = 0
  /\ transcript_text = << >>
  /\ docs = << >>
  /\ all_summaries = << >>
  /\ output_summary = << >>
  /\ llm_calls = << >>
  /\ errors = << >>
  /\ summary_shown = << >>
  /\ text_download = << >>
  /\ pdf_download = << >>

\* The shape of the state: the flag of lines 31-32, the script's position, and the
\* locals of the handler (276-364), get_youtube_transcript (175-196) and
\* generate_summary (225-251).
TypeOK ==
  /\ processing \in BOOLEAN
  /\ pc \in { "idle", "fetch", "chunk", "sniff", "gate", "map", "check", "text", "pdf",
              "finally" }
  /\ generic_url \in Urls
  /\ video \in Videos \cup { NoVideo }
  /\ site \in Sites \cup { NoSite }
  /\ max_chunk_size \in Budgets
  /\ transcript_parts \in Transcripts
  /\ part_index \in 1..(Len(transcript_parts) + 1)
  /\ chunk_size = Len(current_chunk)
  /\ Len(transcript_text) <= 1
  /\ Len(output_summary) <= 1
  /\ Len(all_summaries) <= Len(llm_calls)
  /\ \A i \in 1..Len(all_summaries) : all_summaries[i] \in Responses
  /\ \A i \in 1..Len(llm_calls) : llm_calls[i].prompt \in { "prompt", "final_prompt" }
  /\ Len(summary_shown) <= 1
  /\ Len(text_download) <= 1
  /\ Len(pdf_download) <= 1

(***************************************************************************)
(* The button handler                                                      *)
(***************************************************************************)

\* The button is clickable: the script is not running and the button is not disabled.
Clickable == pc = "idle" /\ ~processing

\* `if not generic_url.strip()`: the click is refused.
TriggerEmpty ==
  /\ Clickable
  /\ \E url \in Urls :
       /\ ~StripNonEmpty(url)
       /\ generic_url' = url
  /\ FreshRun
  /\ errors' = << ProvideUrlMsg >>
  /\ UNCHANGED << processing, pc, video, site, max_chunk_size >>

\* `elif not validators.url(generic_url)`: the click is refused.
TriggerInvalid ==
  /\ Clickable
  /\ \E url \in Urls :
       /\ StripNonEmpty(url)
       /\ ~ValidatorsUrl(url)
       /\ generic_url' = url
  /\ FreshRun
  /\ errors' = << ValidUrlMsg >>
  /\ UNCHANGED << processing, pc, video, site, max_chunk_size >>

\* The else branch: the flag is set and the processing block entered.
TriggerAccept ==
  /\ Clickable
  /\ \E url \in Urls :
       /\ StripNonEmpty(url)
       /\ ValidatorsUrl(url)
       /\ generic_url' = url
       /\ IF IsYoutube(url)
          THEN video' \in Videos /\ site' = NoSite
          ELSE video' = NoVideo /\ site' \in Sites
  /\ FreshRun
  /\ errors' = << >>
  /\ processing' = TRUE
  /\ pc' = "fetch"
  /\ UNCHANGED max_chunk_size

\* ChatGroq(...) or PromptTemplate(...) raises: caught by the handler's except.
SetupRaise ==
  /\ pc = "fetch"
  /\ errors' = Append(errors, AnErrorOccurredPrefix \o ExcText)
  /\ pc' = "finally"
  /\ UNCHANGED << processing, world, max_chunk_size, chunker, transcript_text, docs,
                  all_summaries, output_summary, llm_calls, summary_shown,
                  text_download, pdf_download >>

\* get_youtube_transcript returns a message before its chunking loop.
TranscriptReturnEarly ==
  /\ pc = "fetch"
  /\ IsYoutube(generic_url)
  /\ EarlyReturn(generic_url, video) # << >>
  /\ transcript_text' = EarlyReturn(generic_url, video)
  /\ pc' = "sniff"
  /\ UNCHANGED << processing, world, max_chunk_size, chunker, docs, all_summaries,
                  output_summary, llm_calls, shown >>

\* get_youtube_transcript fetches the parts and enters its loop.
TranscriptFetch ==
  /\ pc = "fetch"
  /\ IsYoutube(generic_url)
  /\ EarlyReturn(generic_url, video) = << >>
  /\ transcript_parts' = PickTranscript(video)[1]
  /\ part_index' = 1
  /\ formatted_text' = << >>
  /\ current_chunk' = << >>
  /\ chunk_size' = 0
  /\ pc' = "chunk"
  /\ UNCHANGED << processing, world, max_chunk_size, transcript_text, docs,
                  all_summaries, output_summary, llm_calls, shown >>

\* One iteration of `for part in transcript_parts`.
ChunkStep ==
  /\ pc = "chunk"
  /\ part_index <= Len(transcript_parts)
  /\ LET unit == text_with_timestamp(transcript_parts[part_index])
     IN  IF ExceedsChunk(chunk_size, unit, max_chunk_size)
         THEN /\ formatted_text' = formatted_text \o current_chunk \o Separator
              /\ current_chunk' = unit
              /\ chunk_size' = Len(unit)
         ELSE /\ formatted_text' = formatted_text
              /\ current_chunk' = current_chunk \o unit
              /\ chunk_size' = chunk_size + Len(unit)
  /\ part_index' = part_index + 1
  /\ UNCHANGED << processing, pc, world, max_chunk_size, transcript_parts,
                  transcript_text, docs, all_summaries, output_summary, llm_calls,
                  shown >>

\* After the loop: the last chunk is added and the text returned.
ChunkReturn ==
  /\ pc = "chunk"
  /\ part_index > Len(transcript_parts)
  /\ transcript_text' = << formatted_text \o current_chunk >>
  /\ pc' = "sniff"
  /\ UNCHANGED << processing, world, max_chunk_size, chunker, docs, all_summaries,
                  output_summary, llm_calls, shown >>

\* `if "Error" in transcript_text or "No transcript" in transcript_text`
SniffTranscript ==
  /\ pc = "sniff"
  /\ IF LooksLikeFetchError(transcript_text[1])
     THEN /\ errors' = Append(errors, transcript_text[1])
          /\ docs' = docs
     ELSE /\ errors' = errors
          /\ docs' = << transcript_text[1] >>
  /\ pc' = "gate"
  /\ UNCHANGED << processing, world, max_chunk_size, chunker, transcript_text,
                  all_summaries, output_summary, llm_calls, summary_shown,
                  text_download, pdf_download >>

\* `docs = process_website(generic_url)` and the isinstance(docs, str) test.
ProcessWebsite ==
  /\ pc = "fetch"
  /\ ~IsYoutube(generic_url)
  /\ IF site.outcome = "ok"
     THEN /\ docs' = site.docs
          /\ errors' = errors
     ELSE /\ docs' = << >>
          /\ errors' = Append(errors, ErrorProcessingPrefix \o ExcText)
  /\ pc' = "gate"
  /\ UNCHANGED << processing, world, max_chunk_size, chunker, transcript_text,
                  all_summaries, output_summary, llm_calls, summary_shown,
                  text_download, pdf_download >>

\* `if docs:` with its else branch.
Gate ==
  /\ pc = "gate"
  /\ IF docs # << >>
     THEN /\ pc' = "map"
          /\ errors' = errors
     ELSE /\ pc' = "finally"
          /\ errors' = Append(errors, CouldNotProcessMsg)
  /\ UNCHANGED << processing, world, max_chunk_size, chunker, transcript_text, docs,
                  all_summaries, output_summary, llm_calls, summary_shown,
                  text_download, pdf_download >>

(***************************************************************************)
(* generate_summary                                                        *)
(***************************************************************************)

\* the chunk the loops reach next
NextSegment == Segments(docs)[Len(all_summaries) + 1]

MoreSegments == Len(all_summaries) < Len(Segments(docs))

\* one chain.run: the template, the text put in it, and the answer as an Optional
\* (<< >> when the call raised)
Call(prompt, text, result) == [prompt |-> prompt, text |-> text, result |-> result]

\* chain.run([chunk_doc]) answers and the answer is appended.
MapCall ==
  /\ pc = "map"
  /\ MoreSegments
  /\ \E r \in Responses :
       /\ llm_calls' = Append(llm_calls, Call("prompt", NextSegment, << r >>))
       /\ all_summaries' = Append(all_summaries, r)
  /\ UNCHANGED << processing, pc, world, max_chunk_size, chunker, transcript_text, docs,
                  output_summary, shown >>

\* chain.run([chunk_doc]) raises: the function's except returns the message.
MapRaise ==
  /\ pc = "map"
  /\ MoreSegments
  /\ llm_calls' = Append(llm_calls, Call("prompt", NextSegment, << >>))
  /\ output_summary' = << SummaryError(ExcText) >>
  /\ pc' = "check"
  /\ UNCHANGED << processing, world, max_chunk_size, chunker, transcript_text, docs,
                  all_summaries, shown >>

\* final_chain.run(...) on the joined summaries answers.
ReduceCall ==
  /\ pc = "map"
  /\ ~MoreSegments
  /\ NeedsReduce(all_summaries)
  /\ \E r \in Responses :
       /\ llm_calls' = Append(llm_calls,
                              Call("final_prompt", CompositeText(all_summaries), << r >>))
       /\ output_summary' = << r >>
  /\ pc' = "check"
  /\ UNCHANGED << processing, world, max_chunk_size, chunker, transcript_text, docs,
                  all_summaries, shown >>

\* final_chain.run(...) raises.
ReduceRaise ==
  /\ pc = "map"
  /\ ~MoreSegments
  /\ NeedsReduce(all_summaries)
  /\ llm_calls' = Append(llm_calls,
                         Call("final_prompt", CompositeText(all_summaries), << >>))
  /\ output_summary' = << SummaryError(ExcText) >>
  /\ pc' = "check"
  /\ UNCHANGED << processing, world, max_chunk_size, chunker, transcript_text, docs,
                  all_summaries, shown >>

\* `return all_summaries[0]`
ReturnFirst ==
  /\ pc = "map"
  /\ ~MoreSegments
  /\ ~NeedsReduce(all_summaries)
  /\ output_summary' = << ElseResult(all_summaries) >>
  /\ pc' = "check"
  /\ UNCHANGED << processing, world, max_chunk_size, chunker, transcript_text, docs,
                  all_summaries, llm_calls, shown >>

(***************************************************************************)
(* Display and export                                                      *)
(***************************************************************************)

\* `if "Error" in output_summary` ... else the summary is displayed.
CheckSummary ==
  /\ pc = "check"
  /\ IF LooksLikeError(output_summary[1])
     THEN /\ errors' = Append(errors, output_summary[1])
          /\ summary_shown' = summary_shown
          /\ pc' = "finally"
     ELSE /\ errors' = errors
          /\ summary_shown' = << output_summary[1] >>
          /\ pc' = "text"
  /\ UNCHANGED << processing, world, max_chunk_size, chunker, transcript_text, docs,
                  all_summaries, output_summary, llm_calls, text_download,
                  pdf_download >>

\* the text button left for after the PDF
TextDownloadLate ==
  /\ pc = "text"
  /\ pc' = "pdf"
  /\ UNCHANGED << processing, world, max_chunk_size, chunker, transcript_text, docs,
                  all_summaries, output_summary, llm_calls, shown >>

\* The text download button.
TextDownload ==
  /\ pc = "text"
  /\ text_download' = << output_summary[1] >>
  /\ pc' = "pdf"
  /\ UNCHANGED << processing, world, max_chunk_size, chunker, transcript_text, docs,
                  all_summaries, output_summary, llm_calls, errors, summary_shown,
                  pdf_download >>

\* The PDF is built, encoded and offered.
PdfDownload ==
  /\ pc = "pdf"
  /\ PdfEncodable(output_summary[1], generic_url)
  /\ pdf_download' = << [body |-> output_summary[1], source |-> generic_url] >>
  /\ pc' = "finally"
  /\ UNCHANGED << processing, world, max_chunk_size, chunker, transcript_text, docs,
                  all_summaries, output_summary, llm_calls, errors, summary_shown,
                  text_download >>

\* The PDF encoding raises: the handler's except reports it.
PdfRaise ==
  /\ pc = "pdf"
  /\ ~PdfEncodable(output_summary[1], generic_url)
  /\ errors' = Append(errors, AnErrorOccurredPrefix \o CodecErrText)
  /\ pc' = "finally"
  /\ UNCHANGED << processing, world, max_chunk_size, chunker, transcript_text, docs,
                  all_summaries, output_summary, llm_calls, summary_shown,
                  text_download, pdf_download >>

\* the script ends with the flag left as it is
FinallyKeepsFlag ==
  /\ pc = "finally"
  /\ pc' = "idle"
  /\ UNCHANGED << processing, world, max_chunk_size, chunker, transcript_text, docs,
                  all_summaries, output_summary, llm_calls, shown >>

\* `finally: st.session_state.processing = False`, and the script ends.
Finally ==
  /\ pc = "finally"
  /\ processing' = FALSE
  /\ pc' = "idle"
  /\ UNCHANGED << world, max_chunk_size, chunker, transcript_text, docs, all_summaries,
                  output_summary, llm_calls, shown >>

Next ==
  \/ TriggerEmpty
  \/ TriggerInvalid
  \/ TriggerAccept
  \/ SetupRaise
  \/ TranscriptReturnEarly
  \/ TranscriptFetch
  \/ ChunkStep
  \/ ChunkReturn
  \/ SniffTranscript
  \/ ProcessWebsite
  \/ Gate
  \/ MapCall
  \/ MapRaise
  \/ ReduceCall
  \/ ReduceRaise
  \/ ReturnFirst
  \/ CheckSummary
  \/ TextDownload
  \/ PdfDownload
  \/ PdfRaise
  \/ Finally

Spec == Init /\ [][Next]_vars

(***************************************************************************)
(* Properties                                                              *)
(***************************************************************************)

\* the timestamped lines of the fetched transcript, in order
Units == [i \in 1..Len(transcript_parts) |-> text_with_timestamp(transcript_parts[i])]

\* the lengths of the prefixes of a sequence of strings: where its boundaries fall
Boundaries(strs) == { Len(Concat(SubSeq(strs, 1, k))) : k \in 0..Len(strs) }

\* The run accepted the URL (it is running, or it ran and ended).
Accepted == StripNonEmpty(generic_url) /\ ValidatorsUrl(generic_url)

\* The run has ended.
Ended == pc = "idle" /\ Accepted

\* get_youtube_transcript went through its loop and returned.
ChunkerReturned ==
  /\ IsYoutube(generic_url)
  /\ EarlyReturn(generic_url, video) = << >>
  /\ transcript_text # << >>

\* C1 (chunk reconstruction): the pieces generate_summary gets by splitting the
\* chunker's text on the separator, concatenated in order, are the units concatenated
\* in order, and every boundary between two pieces is a boundary between two units.
C1_ChunkReconstruction ==
  ChunkerReturned =>
    LET segs == Split(transcript_text[1], Separator)
    IN  /\ Concat(segs) = Concat(Units)
        /\ Boundaries(segs) \subseteq Boundaries(Units)

\* A chunk is within the budget, or is exactly one unit that alone exceeds it.
WithinBound(chunk) ==
  \/ Len(chunk) <= max_chunk_size
  \/ \E i \in 1..Len(Units) : chunk = Units[i] /\ Len(Units[i]) > max_chunk_size

\* C2 (chunk bound): each iteration of the loop closes the current chunk exactly when
\* the next unit would take it over the budget, the chunk it closes and the chunk the
\* loop ends with are within the budget or one oversized unit alone, and a closed
\* chunk goes to the output as it is.
C2_ChunkBound ==
  [][ /\ (pc = "chunk" /\ pc' = "chunk") =>
           LET unit == Units[part_index]
               closes == formatted_text' # formatted_text
           IN  /\ closes <=> (Len(current_chunk) + Len(unit) > max_chunk_size)
               /\ closes => /\ WithinBound(current_chunk)
                            /\ formatted_text' = formatted_text \o current_chunk \o Separator
                            /\ current_chunk' = unit
               /\ ~closes => current_chunk' = current_chunk \o unit
      /\ (pc = "chunk" /\ pc' = "sniff") =>
           /\ WithinBound(current_chunk)
           /\ transcript_text' = << formatted_text \o current_chunk >>
    ]_vars

\* C2 witness: the loop is over a three-unit transcript whose middle unit exceeds the
\* budget: a chunk was closed before it and after it.
C2_Witness ==
  /\ pc = "chunk"
  /\ part_index > Len(transcript_parts)
  /\ Len(transcript_parts) = 3
  /\ Len(Units[2]) > max_chunk_size
  /\ formatted_text = Units[1] \o Separator \o Units[2] \o Separator
  /\ current_chunk = Units[3]

\* the start of the last part of the transcript the run uses, 0 without one
LastTimestamp ==
  IF video.listing = "ok" /\ PickTranscript(video) # << >>
       /\ PickTranscript(video)[1] # << >>
  THEN PickTranscript(video)[1][Len(PickTranscript(video)[1])].start
  ELSE 0

\* C3 (duration policy): in a run on a YouTube video whose last transcript timestamp
\* exceeds 1800 seconds no LLM call is made, no summary is shown, no download is
\* offered, and the run ends with an error shown.
C3_DurationPolicy ==
  (Accepted /\ IsYoutube(generic_url) /\ extract_video_id(generic_url) # << >>
     /\ LastTimestamp > 1800) =>
    /\ llm_calls = << >>
    /\ summary_shown = << >>
    /\ text_download = << >>
    /\ pdf_download = << >>
    /\ Ended => errors # << >>

\* generate_summary has returned.
Returned == output_summary # << >>

\* C4 (single-segment short-circuit): when generate_summary returns having summarized
\* the one non-empty chunk there is, it made exactly one LLM call, with the first-pass
\* template on that chunk, and returns that call's answer unchanged.
C4_SingleSegment ==
  (Returned /\ Len(Segments(docs)) = 1 /\ Len(all_summaries) = 1) =>
    /\ Len(llm_calls) = 1
    /\ llm_calls[1].prompt = "prompt"
    /\ llm_calls[1].text = Segments(docs)[1]
    /\ llm_calls[1].result = output_summary

\* C4 witness: a run on a one-chunk source has ended and shows the LLM's answer.
C4_Witness ==
  /\ Ended
  /\ Len(Segments(docs)) = 1
  /\ Len(llm_calls) = 1
  /\ summary_shown = << SummaryA >>

\* C5 (multi-segment reduce, in order): when generate_summary returns having
\* summarized all n > 1 non-empty chunks, it made exactly n + 1 LLM calls: the i-th
\* with the first-pass template on the i-th chunk, the last with the other template on
\* the n answers joined by a blank line in the order of their chunks; and what the
\* last call answers is what is returned.
C5_MultiSegmentReduce ==
  LET n == Len(Segments(docs))
  IN  (Returned /\ n > 1 /\ Len(all_summaries) = n) =>
        /\ Len(llm_calls) = n + 1
        /\ \A i \in 1..n : /\ llm_calls[i].prompt = "prompt"
                           /\ llm_calls[i].text = Segments(docs)[i]
                           /\ llm_calls[i].result # << >>
        /\ llm_calls[n + 1].prompt = "final_prompt"
        /\ llm_calls[n + 1].text =
             Join([i \in 1..n |-> llm_calls[i].result[1]], << "\n", "\n" >>)
        /\ llm_calls[n + 1].result # << >> => output_summary = llm_calls[n + 1].result

\* C5 witness: three chunks were answered "A", "B", "A" and the reduce call answered.
C5_Witness ==
  /\ Ended
  /\ Len(Segments(docs)) = 3
  /\ Len(llm_calls) = 4
  /\ llm_calls[1].result = << SummaryA >>
  /\ llm_calls[2].result = << SummaryB >>
  /\ llm_calls[3].result = << SummaryA >>
  /\ llm_calls[4].text = << "A", "\n", "\n", "B", "\n", "\n", "A" >>
  /\ summary_shown = << SummaryB >>

\* C6 (empty input fails explicitly): while the documents of a run hold no non-empty
\* chunk, no LLM call is made, no summary is shown and no download is offered; and
\* such a run ends with an error shown.
C6_EmptyInputFails ==
  (Accepted /\ Segments(docs) = << >>) =>
    /\ llm_calls = << >>
    /\ summary_shown = << >>
    /\ text_download = << >>
    /\ pdf_download = << >>
    /\ Ended => errors # << >>

\* C6 witness: a run on a video whose transcript has no parts has ended: the one
\* document is the empty text, and the error shown is generate_summary's.
C6_Witness ==
  /\ Ended
  /\ IsYoutube(generic_url)
  /\ docs = << << >> >>
  /\ errors = << SummaryError(IndexErrorText) >>

\* C7 (segment failure is fatal): an LLM call that raised is the last call of its run
\* (no retry, no later chunk, no reduce after it), its message is in no summary list,
\* no summary is shown and no download offered, and the run ends with the error shown.
C7_FailureIsFatal ==
  \A i \in 1..Len(llm_calls) :
    llm_calls[i].result = << >> =>
      /\ i = Len(llm_calls)
      /\ LET answered == SelectSeq(llm_calls,
                                    LAMBDA c : c.prompt = "prompt" /\ c.result # << >>)
         IN  all_summaries = [j \in 1..Len(answered) |-> answered[j].result[1]]
      /\ summary_shown = << >>
      /\ text_download = << >>
      /\ pdf_download = << >>
      /\ pc \in { "check", "finally", "idle" }
      /\ Ended => errors # << >> /\ errors[Len(errors)] = output_summary[1]

\* C7 witness: the second of three chunks failed and the run has ended.
C7_Witness ==
  /\ Ended
  /\ Len(Segments(docs)) = 3
  /\ Len(llm_calls) = 2
  /\ llm_calls[2].result = << >>
  /\ errors # << >>

\* the lines of a page
Lines(text) == SelectSeq(Split(text, << "\n" >>), LAMBDA l : l # << >>)

\* C8 (bounded segments for web pages): in a run on a web page, a document longer
\* than the budget and of more than one line is split into more than one chunk, and
\* no first-pass call is given a text over the budget that holds more than one line.
C8_WebBounded ==
  (Accepted /\ ~IsYoutube(generic_url)) =>
    /\ \A d \in 1..Len(docs) :
         (Len(docs[d]) > max_chunk_size /\ Len(Lines(docs[d])) > 1)
           => Len(Segments(<< docs[d] >>)) > 1
    /\ \A i \in 1..Len(llm_calls) :
         llm_calls[i].prompt = "prompt" =>
           \/ Len(llm_calls[i].text) <= max_chunk_size
           \/ Len(Lines(llm_calls[i].text)) <= 1

\* C9 (export independence): when the PDF encoding is attempted, and from then on,
\* the text download is on the page with the whole summary; a run that showed a
\* summary ends with the PDF offered or with the encoding's failure reported; and
\* until the next run nothing takes the text download back.
C9_ExportIndependence ==
  /\ [](pc \in { "pdf", "finally", "idle" } /\ summary_shown # << >>
          => /\ text_download = output_summary
             /\ text_download = summary_shown)
  /\ []((Ended /\ summary_shown # << >>)
          => \/ pdf_download # << >>
             \/ errors = << AnErrorOccurredPrefix \o CodecErrText >>)
  /\ [][(text_download # << >> /\ pc # "idle") => text_download' = text_download]_vars

\* C9 witness: the summary holds a character outside latin-1; the run has ended with
\* the text offered, no PDF, and the encoding error reported.
C9_Witness ==
  /\ Ended
  /\ summary_shown = << SummaryEuro >>
  /\ text_download = << SummaryEuro >>
  /\ pdf_download = << >>
  /\ errors = << AnErrorOccurredPrefix \o CodecErrText >>

\* C10 (the processing flag is released): between runs the flag is False, so the
\* button is clickable; and the flag goes from False to True only in the step that
\* enters the processing block, with a non-empty, valid URL.
C10_FlagReleased ==
  /\ [](pc = "idle" => (~processing /\ Clickable))
  /\ [](pc # "idle" => processing)
  /\ [][(~processing /\ processing') =>
          /\ pc = "idle" /\ pc' = "fetch"
          /\ StripNonEmpty(generic_url') /\ ValidatorsUrl(generic_url')]_vars
  /\ [][(pc = "idle" /\ ~(StripNonEmpty(generic_url') /\ ValidatorsUrl(generic_url')))
          => ~processing']_vars

\* C10 witness: a run in which an LLM call raised has ended with the flag False.
C10_Witness ==
  /\ Ended
  /\ ~processing
  /\ llm_calls # << >>
  /\ llm_calls[Len(llm_calls)].result = << >>
  /\ errors # << >>

====
